---- MODULE Spec2Model ----
(***************************************************************************)
(* Bulk create / update / destroy mixins of rest_framework_bulk (drf3).    *)
(*                                                                         *)
(* One request is handled at a time by one handler invocation              *)
(* (synchronous, per request).  The persisted records live in `store`; the *)
(* view instance (`inst`), the request and what the handler produced       *)
(* (`response`, the hooks it called in `calls`) live for the duration of   *)
(* the request.  `store0` is the store as it was when the handler started. *)
(***************************************************************************)
EXTENDS Integers, Sequences, FiniteSets, TLC

VARIABLES store, store0, inst, request, response, calls

vars == <<store, store0, inst, request, response, calls>>

----------------------------------------------------------------------------
(* Bounds of the model                                                     *)

\* record ids are 1..MaxId
MaxId == 4
\* a bulk payload holds at most MaxRows records
MaxRows == 2

Ids == 1..MaxId

----------------------------------------------------------------------------
(* Python values                                                           *)

None == "<None>"
\* a field a payload record does not carry
Absent == "<absent>"
\* a class attribute the view's classes do not define
Undefined == "<undefined>"

\* Python truthiness of an attribute that is None or a string
Truthy(x) == x /= None /\ x /= ""

\* x or y
Or(x, y) == IF Truthy(x) THEN x ELSE y

\* what the persistence layer keeps of a record: field name -> value
StoredRows == { [name |-> "a", note |-> "x"], [name |-> "b", note |-> "y"] }

Stores == UNION { [S -> StoredRows] : S \in SUBSET Ids }

EmptyStore == [x \in {} |-> [name |-> "a", note |-> "x"]]

\* the ids of a set in ascending order (the order a queryset iterates in)
RECURSIVE Sorted(_)
Sorted(S) ==
    IF S = {} THEN <<>>
    ELSE LET m == CHOOSE x \in S : \A y \in S : x <= y
         IN  <<m>> \o Sorted(S \ {m})

Range(s) == { s[i] : i \in 1..Len(s) }

\* a payload record: Absent marks a key the record does not carry; the empty
\* string is a value the field's validation rejects
Rows == [id : Ids, name : {Absent, "a", ""}, note : {Absent, "x"}]

\* a dict with none of the record's keys
EmptyRow == [id |-> 0, name |-> Absent, note |-> Absent]

RowSeqs == UNION { [1..n -> Rows] : n \in 0..MaxRows }

\* a parsed body: a list of records, or a dict (one record)
NoData == [shape |-> "dict", rows |-> <<EmptyRow>>, csv_key |-> None,
           csv_shape |-> "dict", csv_rows |-> <<EmptyRow>>]

PyList(rows) == [NoData EXCEPT !.shape = "list", !.rows = rows]

PyDict(row) == [NoData EXCEPT !.rows = <<row>>]

\* a form whose one field `key` holds the (externally parsed) file content
PyForm(key, value) ==
    [NoData EXCEPT !.csv_key = key, !.csv_shape = value.shape, !.csv_rows = value.rows]

Payloads == { PyList(rows) : rows \in RowSeqs } \cup { PyDict(row) : row \in Rows }

FileKeys == {"file"}

\* a body, or a form carrying a parsed CSV file (a list of records)
RequestData == Payloads \cup { PyForm(k, PyList(rows)) : k \in FileKeys, rows \in RowSeqs }

\* key in data: a key of a dict; never an element of a list of records
Contains(data, key) == data.shape = "dict" /\ data.csv_key = key

\* data[key]
GetItem(data, key) ==
    [NoData EXCEPT !.shape = data.csv_shape, !.rows = data.csv_rows]

\* isinstance(data, list)
IsList(data) == data.shape = "list"

----------------------------------------------------------------------------
(* Responses, exceptions, the hooks a handler called                       *)

HTTP_200_OK == 200
HTTP_201_CREATED == 201
HTTP_204_NO_CONTENT == 204
HTTP_400_BAD_REQUEST == 400

NoResponse == [kind |-> "none", status |-> 0, body |-> <<>>, exc |-> "", obj |-> 0]

Response(body, status) == [NoResponse EXCEPT !.kind = "response", !.status = status, !.body = body]

Raised(exc) == [NoResponse EXCEPT !.kind = "raised", !.exc = exc]

Returned(obj) == [NoResponse EXCEPT !.kind = "returned", !.obj = obj]

Call(fn, ids) == [fn |-> fn, ids |-> ids]

\* what running (part of) a handler leaves behind
Effect(st, resp, cs) == [store |-> st, response |-> resp, calls |-> cs, csv_with_keys |-> FALSE]

----------------------------------------------------------------------------
(* The view instance and the request                                       *)

DefaultInst ==
    [acceptable_csv_file_name |-> None,
     lookup_field |-> "pk", lookup_url_kwarg |-> None,
     allow_bulk_destroy |-> "default"]

NoKwargs == [k \in {} |-> 0]

Idle ==
    [op |-> "idle", data |-> NoData, csv_with_keys |-> FALSE, kwargs |-> NoKwargs,
     filter_same |-> TRUE, filter_keep |-> {}, fail_id |-> 0]

LookupNames == {"pk", "slug"}

UrlKwargs == UNION { [K -> Ids] : K \in SUBSET LookupNames }

----------------------------------------------------------------------------
(* BulkDestroyModelMixin                                                   *)

\* self.get_queryset(): the handle of the full collection
get_queryset(st) == [oid |-> 1, ids |-> Sorted(DOMAIN st)]

\* self.filter_queryset(qs): the host framework hands back qs itself when no
\* filter backend touches it, and a new queryset object otherwise, whether or
\* not the filter drops any record
filter_queryset(req, qs) ==
    IF req.filter_same THEN qs
    ELSE [oid |-> qs.oid + 1, ids |-> SelectSeq(qs.ids, LAMBDA x : x \in req.filter_keep)]

\* qs is not filtered, as an equality of contents
allow_bulk_destroy_by_content(qs, filtered) == qs.ids /= filtered.ids

allow_bulk_destroy(qs, filtered) == qs.oid /= filtered.oid

\* self.allow_bulk_destroy(qs, filtered): the method the view's class resolves
self_allow_bulk_destroy(view, qs, filtered) ==
    CASE view.allow_bulk_destroy = "default" -> allow_bulk_destroy(qs, filtered)
      [] view.allow_bulk_destroy = "always"  -> TRUE

\* instance.delete() that takes the whole table with it
perform_destroy_all(obj, req, st) ==
    IF obj = req.fail_id
    THEN Effect(st, Raised("DatabaseError"), <<Call("perform_destroy", <<obj>>)>>)
    ELSE Effect(EmptyStore, NoResponse, <<Call("perform_destroy", <<obj>>)>>)

\* instance.delete(): the persistence layer drops the record, or raises
perform_destroy(obj, req, st) ==
    IF obj = req.fail_id
    THEN Effect(st, Raised("DatabaseError"), <<Call("perform_destroy", <<obj>>)>>)
    ELSE Effect([x \in DOMAIN st \ {obj} |-> st[x]], NoResponse,
                <<Call("perform_destroy", <<obj>>)>>)

\* for obj in objects: self.perform_destroy(obj), from the i-th on
RECURSIVE destroy_loop(_, _, _, _, _)
destroy_loop(objects, i, req, st, cs) ==
    IF i > Len(objects) THEN Effect(st, NoResponse, cs)
    ELSE LET e == perform_destroy(objects[i], req, st)
         IN  IF e.response.kind = "raised"
             THEN Effect(e.store, e.response, cs \o e.calls)
             ELSE destroy_loop(objects, i + 1, req, e.store, cs \o e.calls)

\* a loop that swallows a failed delete and goes on
RECURSIVE destroy_loop_skipping(_, _, _, _, _)
destroy_loop_skipping(objects, i, req, st, cs) ==
    IF i > Len(objects) THEN Effect(st, NoResponse, cs)
    ELSE LET e == perform_destroy(objects[i], req, st)
         IN  destroy_loop_skipping(objects, i + 1, req, e.store, cs \o e.calls)

perform_bulk_destroy_skipping(objects, req, st) ==
    destroy_loop_skipping(objects.ids, 1, req, st,
                          <<Call("perform_bulk_destroy", objects.ids)>>)

perform_bulk_destroy(objects, req, st) ==
    destroy_loop(objects.ids, 1, req, st, <<Call("perform_bulk_destroy", objects.ids)>>)

bulk_destroy(view, req, st) ==
    LET qs == get_queryset(st)
        filtered == filter_queryset(req, qs)
    IN  IF ~ self_allow_bulk_destroy(view, qs, filtered)
        THEN Effect(st, Response(<<>>, HTTP_400_BAD_REQUEST), <<>>)
        ELSE LET e == perform_bulk_destroy(filtered, req, st)
             IN  IF e.response.kind = "raised" THEN e
                 ELSE Effect(e.store, Response(<<>>, HTTP_204_NO_CONTENT), e.calls)

----------------------------------------------------------------------------
(* BulkUpdateModelMixin.get_object                                         *)

\* GenericAPIView.get_object(): the record the URL keyword names, or Http404
super_get_object(view, req, st) ==
    LET key == Or(view.lookup_url_kwarg, view.lookup_field)
    IN  IF req.kwargs[key] \in DOMAIN st
        THEN Effect(st, Returned(req.kwargs[key]), <<Call("super.get_object", <<>>)>>)
        ELSE Effect(st, Raised("Http404"), <<Call("super.get_object", <<>>)>>)

\* a lookup that ignores lookup_url_kwarg
get_object_by_field(view, req, st) ==
    IF view.lookup_field \in DOMAIN req.kwargs
    THEN super_get_object([view EXCEPT !.lookup_url_kwarg = None], req, st)
    ELSE Effect(st, Returned(0), <<>>)

\* returns the object id, or 0 for None
get_object(view, req, st) ==
    LET lookup_url_kwarg == Or(view.lookup_url_kwarg, view.lookup_field)
    IN  IF lookup_url_kwarg \in DOMAIN req.kwargs
        THEN super_get_object(view, req, st)
        ELSE Effect(st, Returned(0), <<>>)

----------------------------------------------------------------------------
(* The serializer and the persistence layer, as the handlers use them      *)

\* self.get_serializer(instance, data=..., many=..., partial=...)
get_serializer(instance, data, many, partial) ==
    [instance |-> instance, shape |-> data.shape, rows |-> data.rows,
     many |-> many, partial |-> partial]

\* a record passes when no field holds a rejected value and, unless the update
\* is partial, the required field `name` is there
row_valid(row, partial) == row.name /= "" /\ (partial \/ row.name /= Absent)

\* serializer.is_valid(): many=True wants a list, many=False a dict
is_valid(serializer) ==
    /\ serializer.many <=> serializer.shape = "list"
    /\ \A i \in 1..Len(serializer.rows) : row_valid(serializer.rows[i], serializer.partial)

\* the id the persistence layer gives the next new record
next_id(st) == IF DOMAIN st = {} THEN 1 ELSE 1 + CHOOSE m \in DOMAIN st : \A x \in DOMAIN st : x <= m

\* the fields of a new record
new_record(row) ==
    [name |-> row.name, note |-> IF row.note = Absent THEN "x" ELSE row.note]

\* a stored record with the fields the payload record carries written over it
updated_record(old, row) ==
    [name |-> IF row.name = Absent THEN old.name ELSE row.name,
     note |-> IF row.note = Absent THEN old.note ELSE row.note]

\* serializer.save() without instances: one new record per payload record
RECURSIVE save_create(_, _, _, _)
save_create(rows, i, st, ids) ==
    IF i > Len(rows) THEN [store |-> st, ids |-> ids]
    ELSE LET id == next_id(st)
         IN  save_create(rows, i + 1,
                         [x \in DOMAIN st \cup {id} |-> IF x = id THEN new_record(rows[i]) ELSE st[x]],
                         Append(ids, id))

\* serializer.save() over instances: each payload record updates the instance
\* carrying its id
RECURSIVE save_update(_, _, _, _, _)
save_update(instance, rows, i, st, ids) ==
    IF i > Len(rows) THEN [store |-> st, ids |-> ids]
    ELSE LET id == rows[i].id
         IN  IF id \in Range(instance) /\ id \in DOMAIN st
             THEN save_update(instance, rows, i + 1,
                              [st EXCEPT ![id] = updated_record(st[id], rows[i])],
                              Append(ids, id))
             ELSE save_update(instance, rows, i + 1, st, ids)

\* serializer.data: the representations of the saved records
serializer_data(st, ids) ==
    [i \in 1..Len(ids) |-> [id |-> ids[i], name |-> st[ids[i]].name, note |-> st[ids[i]].note]]

----------------------------------------------------------------------------
(* The positional arguments of a handler                                   *)

\* *args of a handler: a tuple; bulk routes capture no positional argument
NoArgs == <<>>

\* **kwargs of a handler: a dict
dict_set(d, key, value) == [k \in DOMAIN d \cup {key} |-> IF k = key THEN value ELSE d[k]]

\* d.pop(key, default)
dict_pop(d, key, default) == IF key \in DOMAIN d THEN d[key] ELSE default

\* args[key] = value where args is a tuple: tuples take no item assignment
tuple_setitem(args, key, value) == [raised |-> TRUE, exc |-> "TypeError", args |-> args]

\* args[key] where args is a tuple and key a string: tuple indices are integers
tuple_getitem(args, key) == [raised |-> TRUE, exc |-> "TypeError", value |-> NoData]

----------------------------------------------------------------------------
(* BulkCreateModelMixin                                                    *)

\* CreateModelMixin.perform_create: serializer.save()
perform_create(serializer, st) ==
    LET s == save_create(serializer.rows, 1, st, <<>>)
    IN  [store |-> s.store, ids |-> s.ids, calls |-> <<Call("perform_create", s.ids)>>]

perform_bulk_create(serializer, st) ==
    LET e == perform_create(serializer, st)
    IN  [e EXCEPT !.calls = <<Call("perform_bulk_create", e.ids)>> \o e.calls]

\* CreateModelMixin.create: the single-object create on request.data
super_create(view, req, st) ==
    LET serializer == get_serializer(<<>>, req.data, FALSE, FALSE)
    IN  IF ~ is_valid(serializer) THEN Effect(st, Raised("ValidationError"), <<>>)
        ELSE LET e == perform_create(serializer, st)
             IN  Effect(e.store, Response(serializer_data(e.store, e.ids), HTTP_201_CREATED),
                        e.calls)

\* the body of create, under the decorator
create_body(view, req, args, kwargs, st) ==
    LET got == tuple_getitem(args, "data")
        data == got.value
        bulk == IsList(data)
    IN  IF got.raised THEN Effect(st, Raised(got.exc), <<>>)
        ELSE IF ~ bulk THEN super_create(view, req, st)
        ELSE LET serializer == get_serializer(<<>>, data, TRUE, FALSE)
             IN  IF ~ is_valid(serializer) THEN Effect(st, Raised("ValidationError"), <<>>)
                 ELSE LET e == perform_bulk_create(serializer, st)
                      IN  Effect(e.store,
                                 Response(serializer_data(e.store, e.ids), HTTP_201_CREATED),
                                 e.calls)

----------------------------------------------------------------------------
(* BulkUpdateModelMixin                                                    *)

perform_update(serializer, st) ==
    LET s == save_update(serializer.instance, serializer.rows, 1, st, <<>>)
    IN  [store |-> s.store, ids |-> s.ids, calls |-> <<Call("perform_update", s.ids)>>]

perform_bulk_update(serializer, st) ==
    LET e == perform_update(serializer, st)
    IN  [e EXCEPT !.calls = <<Call("perform_bulk_update", e.ids)>> \o e.calls]

\* the body of bulk_update, under the decorator
bulk_update_body(view, req, args, kwargs, st) ==
    LET got == tuple_getitem(args, "data")
        data == got.value
        partial == dict_pop(kwargs, "partial", FALSE)
        serializer == get_serializer(filter_queryset(req, get_queryset(st)).ids,
                                     data, TRUE, partial)
    IN  IF got.raised THEN Effect(st, Raised(got.exc), <<>>)
        ELSE IF ~ is_valid(serializer) THEN Effect(st, Raised("ValidationError"), <<>>)
        ELSE LET e == perform_bulk_update(serializer, st)
             IN  Effect(e.store, Response(serializer_data(e.store, e.ids), HTTP_200_OK),
                        e.calls)

----------------------------------------------------------------------------
(* decorator: resolves the payload and calls the handler body              *)

\* the payload the decorator picks for the body
resolved_data(view, req) ==
    IF Truthy(view.acceptable_csv_file_name)
       /\ Contains(req.data, view.acceptable_csv_file_name)
    THEN GetItem(req.data, view.acceptable_csv_file_name)
    ELSE req.data

\* inner(inst, request, *args, **kwargs) around the body named fn
decorator(fn, view, req, args, kwargs, st) ==
    LET set == tuple_setitem(args, "data", resolved_data(view, req))
        e == IF view.acceptable_csv_file_name = Undefined
             THEN Effect(st, Raised("AttributeError"), <<>>)
             ELSE IF set.raised THEN Effect(st, Raised(set.exc), <<>>)
             ELSE IF fn = "create" THEN create_body(view, req, set.args, kwargs, st)
             ELSE bulk_update_body(view, req, set.args, kwargs, st)
    IN  [e EXCEPT !.csv_with_keys = TRUE]

create(view, req, args, kwargs, st) == decorator("create", view, req, args, kwargs, st)

bulk_update(view, req, args, kwargs, st) == decorator("bulk_update", view, req, args, kwargs, st)

partial_bulk_update(view, req, args, kwargs, st) ==
    bulk_update(view, req, args, dict_set(kwargs, "partial", TRUE), st)

----------------------------------------------------------------------------
(* The handlers as steps                                                   *)

Init ==
    /\ store \in Stores
    /\ store0 = store
    /\ inst = DefaultInst
    /\ request = Idle
    /\ response = NoResponse
    /\ calls = <<>>

\* a handler runs from start to finish on the view and request it is given
Handle(view, req, e) ==
    /\ request.op = "idle"
    /\ store0' = store
    /\ inst' = view
    /\ request' = [req EXCEPT !.csv_with_keys = e.csv_with_keys]
    /\ store' = e.store
    /\ response' = e.response
    /\ calls' = e.calls

BulkDestroy ==
    /\ request.op = "idle"
    /\ \E allow \in {"default", "always"}, same \in BOOLEAN,
       keep \in SUBSET DOMAIN store, fail \in 0..MaxId :
        /\ same => keep = DOMAIN store
        /\ fail \in DOMAIN store \cup {0}
        /\ LET view == [DefaultInst EXCEPT !.allow_bulk_destroy = allow]
               req == [Idle EXCEPT !.op = "bulk_destroy", !.filter_same = same,
                                   !.filter_keep = keep, !.fail_id = fail]
           IN  Handle(view, req, bulk_destroy(view, req, store))

GetObject ==
    /\ request.op = "idle"
    /\ \E field \in LookupNames, kwarg \in LookupNames \cup {None}, kw \in UrlKwargs :
        LET view == [DefaultInst EXCEPT !.lookup_field = field, !.lookup_url_kwarg = kwarg]
            req == [Idle EXCEPT !.op = "get_object", !.kwargs = kw]
        IN  Handle(view, req, get_object(view, req, store))

\* POST: BulkCreateModelMixin alone defines no acceptable_csv_file_name; with
\* BulkUpdateModelMixin it is None or the name the view sets
Create ==
    /\ request.op = "idle"
    /\ \E name \in {Undefined, None} \cup FileKeys, data \in RequestData :
        LET view == [DefaultInst EXCEPT !.acceptable_csv_file_name = name]
            req == [Idle EXCEPT !.op = "create", !.data = data]
        IN  Handle(view, req, create(view, req, NoArgs, NoKwargs, store))

\* the records a filter on the field value name=a keeps
NameIsA(st) == { x \in DOMAIN st : st[x].name = "a" }

\* PUT on the collection, unfiltered or filtered on a field value
BulkUpdate ==
    /\ request.op = "idle"
    /\ \E name \in {None} \cup FileKeys, data \in RequestData, same \in BOOLEAN :
        LET view == [DefaultInst EXCEPT !.acceptable_csv_file_name = name]
            req == [Idle EXCEPT !.op = "bulk_update", !.data = data, !.filter_same = same,
                                !.filter_keep = IF same THEN DOMAIN store ELSE NameIsA(store)]
        IN  Handle(view, req, bulk_update(view, req, NoArgs, NoKwargs, store))

\* PATCH on the collection, unfiltered or filtered on a field value
PartialBulkUpdate ==
    /\ request.op = "idle"
    /\ \E name \in {None} \cup FileKeys, data \in RequestData, same \in BOOLEAN :
        LET view == [DefaultInst EXCEPT !.acceptable_csv_file_name = name]
            req == [Idle EXCEPT !.op = "partial_bulk_update", !.data = data, !.filter_same = same,
                                !.filter_keep = IF same THEN DOMAIN store ELSE NameIsA(store)]
        IN  Handle(view, req, partial_bulk_update(view, req, NoArgs, NoKwargs, store))

\* the response (or the error) leaves the handler; the view instance and the
\* request are dropped
Respond ==
    /\ request.op /= "idle"
    /\ store0' = store
    /\ inst' = DefaultInst
    /\ request' = Idle
    /\ response' = NoResponse
    /\ calls' = <<>>
    /\ UNCHANGED store

Next ==
    \/ Create
    \/ BulkUpdate
    \/ PartialBulkUpdate
    \/ BulkDestroy
    \/ GetObject
    \/ Respond

Spec == Init /\ [][Next]_vars

\* the handlers that read the collection without a payload
NextDestroy ==
    \/ BulkDestroy
    \/ GetObject
    \/ Respond

SpecDestroy == Init /\ [][NextDestroy]_vars

----------------------------------------------------------------------------
(* What a finished request looks like, in terms of its inputs              *)

Handled(op) == request.op = op

\* the records of the full collection when the handler started, in order
FullIds == Sorted(DOMAIN store0)

\* the records the request's filter leaves, in order
FilteredIds == SelectSeq(FullIds, LAMBDA x : x \in request.filter_keep)

\* the filtering step handed back another object than the full collection
OtherObject == ~ request.filter_same

\* what the view's allow_bulk_destroy answers for the request
HookAllows ==
    \/ inst.allow_bulk_destroy = "always"
    \/ inst.allow_bulk_destroy = "default" /\ OtherObject

\* the place in the filtered collection of the record whose delete raises (0: none)
FailAt ==
    IF \E i \in 1..Len(FilteredIds) : FilteredIds[i] = request.fail_id
    THEN CHOOSE i \in 1..Len(FilteredIds) : FilteredIds[i] = request.fail_id
    ELSE 0

\* st without the records of gone, the others as they were
Without(st, gone) == [x \in DOMAIN st \ gone |-> st[x]]

HasStatus(code) == response.kind = "response" /\ response.status = code

BulkDestroyCalls == SelectSeq(calls, LAMBDA c : c.fn = "perform_bulk_destroy")

\* the payload the claims speak of: the embedded field when its name is
\* configured and present, the raw body otherwise
ClaimedPayload ==
    IF inst.acceptable_csv_file_name \in FileKeys
       /\ request.data.shape = "dict"
       /\ request.data.csv_key = inst.acceptable_csv_file_name
    THEN [shape |-> request.data.csv_shape, rows |-> request.data.csv_rows]
    ELSE [shape |-> request.data.shape, rows |-> request.data.rows]

\* the view defines acceptable_csv_file_name (BulkUpdateModelMixin is mixed in)
AttributeDefined == inst.acceptable_csv_file_name /= Undefined

AllRowsValid(rows, partial) ==
    \A i \in 1..Len(rows) :
        rows[i].name /= "" /\ (partial \/ rows[i].name /= Absent)

----------------------------------------------------------------------------
(* The claims                                                              *)

\* C1: a create whose resolved payload is a list of N records that all pass
\* validation persists exactly N new records, leaves the records already stored
\* as they were, and answers 201 with N representations.
C1_BulkCreatePersistsAll ==
    ( /\ Handled("create")
      /\ AttributeDefined
      /\ ClaimedPayload.shape = "list"
      /\ Len(ClaimedPayload.rows) >= 1
      /\ AllRowsValid(ClaimedPayload.rows, FALSE) )
    => /\ HasStatus(HTTP_201_CREATED)
       /\ Len(response.body) = Len(ClaimedPayload.rows)
       /\ Cardinality(DOMAIN store) = Cardinality(DOMAIN store0) + Len(ClaimedPayload.rows)
       /\ \A x \in DOMAIN store0 : x \in DOMAIN store /\ store[x] = store0[x]

\* C2: when a record of a bulk payload fails validation in create, bulk_update
\* or partial_bulk_update, no persistence hook is called, the store is as it
\* was, and the outcome is the validation (client) error.
C2_ValidateAllThenPersistAll ==
    ( /\ \/ Handled("create") /\ ClaimedPayload.shape = "list"
         \/ Handled("bulk_update")
         \/ Handled("partial_bulk_update")
      /\ AttributeDefined
      /\ ~ AllRowsValid(ClaimedPayload.rows, Handled("partial_bulk_update")) )
    => /\ calls = <<>>
       /\ store = store0
       /\ response.kind = "raised"
       /\ response.exc = "ValidationError"

\* C3: a create whose payload is a single record ends as the standard
\* single-object create does on the same request from the same store: same
\* store, same response (or validation error), same hooks called.
C3_SingleCreateAsStandard ==
    ( /\ Handled("create")
      /\ AttributeDefined
      /\ ClaimedPayload.shape = "dict" )
    => LET std == super_create(inst, request, store0)
       IN  /\ store = std.store
           /\ response = std.response
           /\ calls = std.calls

\* C4: with the default allow_bulk_destroy, a bulk_destroy whose filtered
\* collection holds the same records as the (non-empty) full collection deletes
\* nothing and answers 400, whether the filtering step hands back the same
\* object or not.
C4_UnfilteredDestroyRefused ==
    ( /\ Handled("bulk_destroy")
      /\ inst.allow_bulk_destroy = "default"
      /\ FullIds /= <<>>
      /\ FilteredIds = FullIds )
    => /\ store = store0
       /\ HasStatus(HTTP_400_BAD_REQUEST)

\* C5: a bulk_destroy whose filter narrows the collection, with no delete
\* failing, removes exactly the filtered records, leaves every other record
\* present and unchanged, and answers 204 with an empty body.
C5_NarrowedDestroyDeletesFiltered ==
    ( /\ Handled("bulk_destroy")
      /\ FilteredIds /= FullIds
      /\ FailAt = 0 )
    => /\ DOMAIN store = DOMAIN store0 \ Range(FilteredIds)
       /\ \A x \in DOMAIN store : store[x] = store0[x]
       /\ HasStatus(HTTP_204_NO_CONTENT)
       /\ response.body = <<>>

\* C5 witness: full = {1,2,3,4}, the filter keeps {2,4}: {1,3} remain, 204.
C5_Witness ==
    /\ Handled("bulk_destroy")
    /\ inst.allow_bulk_destroy = "default"
    /\ DOMAIN store0 = {1, 2, 3, 4}
    /\ FilteredIds = <<2, 4>>
    /\ DOMAIN store = {1, 3}
    /\ HasStatus(HTTP_204_NO_CONTENT)

\* C6: partial_bulk_update validates with partial = true, so a record whose
\* payload omits `name` is updated and keeps its stored name; bulk_update
\* validates with partial = false, so a payload record without the required
\* `name` fails validation and nothing is persisted.
C6_PartialFlag ==
    /\ ( /\ Handled("partial_bulk_update")
         /\ AttributeDefined
         /\ ClaimedPayload.shape = "list"
         /\ AllRowsValid(ClaimedPayload.rows, TRUE) )
       => /\ HasStatus(HTTP_200_OK)
          /\ \A i \in 1..Len(ClaimedPayload.rows) :
                LET row == ClaimedPayload.rows[i]
                IN  (row.name = Absent /\ row.id \in Range(FilteredIds))
                    => store[row.id].name = store0[row.id].name
    /\ ( /\ Handled("bulk_update")
         /\ AttributeDefined
         /\ ClaimedPayload.shape = "list"
         /\ \E i \in 1..Len(ClaimedPayload.rows) : ClaimedPayload.rows[i].name = Absent )
       => /\ response.kind = "raised"
          /\ response.exc = "ValidationError"
          /\ store = store0

\* C7: create and bulk_update work on the embedded field when its name is
\* configured and present in the request data and on the raw body otherwise,
\* and the handler completes with that payload: it ends with its response, or
\* with the validation error of that payload.
C7_PayloadResolved ==
    ( /\ Handled("create") \/ Handled("bulk_update") \/ Handled("partial_bulk_update")
      /\ AttributeDefined )
    => \/ response.kind = "response"
       \/ response.kind = "raised" /\ response.exc = "ValidationError"

\* the key get_object looks for: the configured lookup URL keyword, or the
\* lookup field when none is configured
EffectiveLookupKey ==
    IF inst.lookup_url_kwarg = None THEN inst.lookup_field ELSE inst.lookup_url_kwarg

\* C8: get_object returns None, raising nothing and looking nothing up, when the
\* effective lookup key is absent from the URL keywords, and hands over to the
\* standard single-object lookup (found, or not found) when it is present.
C8_GetObjectWithoutKey ==
    Handled("get_object")
    => /\ store = store0
       /\ EffectiveLookupKey \notin DOMAIN request.kwargs
            => response = Returned(0) /\ calls = <<>>
       /\ EffectiveLookupKey \in DOMAIN request.kwargs
            => /\ calls = <<Call("super.get_object", <<>>)>>
               /\ IF request.kwargs[EffectiveLookupKey] \in DOMAIN store0
                  THEN response = Returned(request.kwargs[EffectiveLookupKey])
                  ELSE response = Raised("Http404")

\* C8 witness: lookup_url_kwarg is configured and absent while the lookup
\* field's own name is among the URL keywords: None comes back.
C8_Witness ==
    /\ Handled("get_object")
    /\ inst.lookup_url_kwarg = "slug"
    /\ inst.lookup_field = "pk"
    /\ DOMAIN request.kwargs = {"pk"}
    /\ request.kwargs["pk"] \in DOMAIN store0
    /\ response = Returned(0)

\* the gate of bulk_destroy, the part C9 and its amendment share
C9_Gate ==
    /\ ~ HookAllows
         => /\ BulkDestroyCalls = <<>>
            /\ calls = <<>>
            /\ store = store0
            /\ HasStatus(HTTP_400_BAD_REQUEST)
    /\ HookAllows
         => BulkDestroyCalls = <<Call("perform_bulk_destroy", FilteredIds)>>
    /\ ( /\ inst.allow_bulk_destroy = "always"
         /\ ~ OtherObject
         /\ FailAt = 0 )
         => store = EmptyStore

\* C9 as stated: the hook alone gates bulk_destroy: refused, nothing is called
\* or deleted and the answer is 400; allowed, perform_bulk_destroy is called
\* once on the filtered collection and the answer is 204.  The default hook
\* allows exactly when the filtered collection is another object.
C9_HookGatesDestroy_Original ==
    Handled("bulk_destroy")
    => /\ C9_Gate
       /\ HookAllows => HasStatus(HTTP_204_NO_CONTENT)

\* C9 amended: as stated, except that the answer of an allowed bulk_destroy is
\* 204 when no delete raises; when one raises, its error is the outcome.
C9_HookGatesDestroy ==
    Handled("bulk_destroy")
    => /\ C9_Gate
       /\ (HookAllows /\ FailAt = 0) => HasStatus(HTTP_204_NO_CONTENT)
       /\ (HookAllows /\ FailAt /= 0) => response = Raised("DatabaseError")

\* C9 witness: the filter hands back a new object holding every record, the
\* default hook allows, and the whole collection is deleted.
C9_Witness ==
    /\ Handled("bulk_destroy")
    /\ inst.allow_bulk_destroy = "default"
    /\ OtherObject
    /\ FilteredIds = FullIds
    /\ Len(FullIds) >= 2
    /\ store = EmptyStore
    /\ HasStatus(HTTP_204_NO_CONTENT)

\* C10: an allowed bulk_destroy calls perform_destroy once per record of the
\* filtered collection, in order; when the delete of the N-th record raises,
\* records 1..N-1 are gone, the N-th and the later ones are still stored, no
\* delete is tried again or after it, and the error is the outcome (no 204).
C10_SequentialNonAtomic ==
    ( Handled("bulk_destroy") /\ HookAllows )
    => LET n == IF FailAt = 0 THEN Len(FilteredIds) ELSE FailAt
           gone == { FilteredIds[i] : i \in 1..(IF FailAt = 0 THEN n ELSE n - 1) }
       IN  /\ Len(calls) = n + 1
           /\ calls[1] = Call("perform_bulk_destroy", FilteredIds)
           /\ \A i \in 1..n : calls[i + 1] = Call("perform_destroy", <<FilteredIds[i]>>)
           /\ store = Without(store0, gone)
           /\ FailAt /= 0 => response = Raised("DatabaseError")
           /\ FailAt = 0 => HasStatus(HTTP_204_NO_CONTENT)

\* C10 witness: the delete of the second of three records fails: the first is
\* gone, the second and third are still stored.
C10_Witness ==
    /\ Handled("bulk_destroy")
    /\ FilteredIds = <<1, 2, 3>>
    /\ request.fail_id = 2
    /\ DOMAIN store0 = {1, 2, 3, 4}
    /\ DOMAIN store = {2, 3, 4}
    /\ response.kind = "raised"

====
